---- MODULE Spec2Model ----
(***************************************************************************)
(* Sakura Sorter (src/sorter.py): a watchdog observer delivers creation    *)
(* events of a watch folder to AutoSortHandler.on_created, which waits for *)
(* the file to stop changing (wait_for_download), extracts the leading     *)
(* bracketed tag of the file name (extract_tag), looks the tag up in the   *)
(* rule set and moves the file into the rule's folder (move_file,          *)
(* get_unique_filename, shutil.move).                                      *)
(*                                                                         *)
(* AutoSorterApp starts and stops the observer (toggle_monitoring,         *)
(* start_monitoring, stop_monitoring, on_closing) and edits the rule set   *)
(* the handler reads (add_tag, remove_tag) on the GUI thread.              *)
(*                                                                         *)
(* A file name is a string; the regular expression, the lower-casing,      *)
(* splitext and the numeric suffix are computed on its characters, a       *)
(* sequence of one-character strings.  A path is a record [dir, name].     *)
(***************************************************************************)
EXTENDS Integers, Sequences, FiniteSets, TLC

\* ------------------------------------------------------------------------
\* Bounds of the model
\* ------------------------------------------------------------------------

\* sizes a file can have: 0 .. MaxSize
MaxSize == 1

\* files ever created (by the producers in the watch folder and by other
\* writers in the destination folder)
MaxFiles == 2

\* creation events the emitter ever queues
MaxEvents == 2

\* Observer() objects ever constructed
MaxObservers == 2

\* length of the names extract_tag is called on, on its own
MaxNameLen == 4

\* numbered names base_1.ext .. base_MaxTaken.ext that may be taken when
\* get_unique_filename is called
MaxTaken == 3

\* ------------------------------------------------------------------------
\* Program constants
\* ------------------------------------------------------------------------

\* wait_for_download(self, file_path, timeout=30, interval=1)
Timeout == 30
Interval == 1

\* previous_size = -1
InitialPreviousSize == -1

\* counter = 1 in get_unique_filename
FirstCounter == 1

\* ------------------------------------------------------------------------
\* Names, folders, paths
\* ------------------------------------------------------------------------

WatchRoot == "/watch"
DestInvoices == "/dest/invoices"
NoFolder == ""

\* a watch folder named in settings.json that is not there any more
GoneFolder == "/gone"

\* str(characters): the string spelled by a sequence of characters
RECURSIVE Str(_)
Str(chars) == IF chars = <<>> THEN "" ELSE Head(chars) \o Str(Tail(chars))

InvoiceChars ==
    <<"[","I","n","v","o","i","c","e","]"," ","m","a","r","c","h",".","p","d","f">>
ReportChars == <<"r","e","p","o","r","t",".","p","d","f">>
ReportTxtChars == <<"r","e","p","o","r","t",".","t","x","t">>
ReadmeChars == <<"R","E","A","D","M","E">>
HiddenChars == <<".","h","i","d","d","e","n">>
ArchiveChars == <<"a","r","c","h","i","v","e",".","t","a","r",".","g","z">>

\* what is typed into the tag entry and the path entry of the rule editor
BlankChars == <<" "," ">>
TypedTagChars == <<" ","[","I","n","v","o","i","c","e","]"," ">>
InvoiceTagChars == <<"[","i","n","v","o","i","c","e","]">>
MixedTagChars == <<"[","I","n","v","o","i","c","e","]">>
DestInvoicesChars ==
    <<"/","d","e","s","t","/","i","n","v","o","i","c","e","s">>
TypedPathChars ==
    <<" ","/","d","e","s","t","/","i","n","v","o","i","c","e","s">>
EntryChars ==
    {<<>>, BlankChars, TypedTagChars, InvoiceTagChars, MixedTagChars,
     DestInvoicesChars, TypedPathChars}

\* the file names spelled out above
FileNameChars ==
    {InvoiceChars, ReportChars, ReportTxtChars, ReadmeChars, HiddenChars,
     ArchiveChars}

InvoiceName == Str(InvoiceChars)
ReportName == Str(ReportChars)
InvoiceTag == "[invoice]"

\* the names producers give to files they drop in the watch folder
WatchNames == {InvoiceName, ReportName}

\* the characters of a file name
Spelling(known) ==
    [name \in {Str(chars) : chars \in known} |->
        CHOOSE chars \in known : Str(chars) = name]
FileSpelling == Spelling(FileNameChars \cup EntryChars)

\* the short names over a few characters: brackets, letters of both cases
\* and a newline
TagAlphabet == {"[", "]", "A", "b", "\n"}
ShortNameChars == UNION { [1..n -> TagAlphabet] : n \in 0..MaxNameLen }
ShortSpelled == { <<Str(chars), chars>> : chars \in ShortNameChars }
ShortNames == { pair[1] : pair \in ShortSpelled }

Chars(name) ==
    IF name \in DOMAIN FileSpelling
    THEN FileSpelling[name]
    ELSE (CHOOSE pair \in ShortSpelled : pair[1] = name)[2]

\* os.path.join(folder, name)
Join(folder, name) == [dir |-> folder, name |-> name]

\* os.path.basename(path)
Basename(path) == path.name

UpperCase ==
    <<"A","B","C","D","E","F","G","H","I","J","K","L","M",
      "N","O","P","Q","R","S","T","U","V","W","X","Y","Z">>
LowerCase ==
    <<"a","b","c","d","e","f","g","h","i","j","k","l","m",
      "n","o","p","q","r","s","t","u","v","w","x","y","z">>

\* str.lower() on one character
LowerChar(c) ==
    IF \E i \in 1..Len(UpperCase) : UpperCase[i] = c
    THEN LowerCase[CHOOSE i \in 1..Len(UpperCase) : UpperCase[i] = c]
    ELSE c

\* str.lower()
Lower(chars) == [i \in 1..Len(chars) |-> LowerChar(chars[i])]

\* the characters str.strip() removes
Whitespace == {" ", "\t", "\n", "\r"}

\* str.strip()
Strip(chars) ==
    LET kept == { i \in 1..Len(chars) : chars[i] \notin Whitespace }
    IN  IF kept = {} THEN <<>>
        ELSE SubSeq(chars, CHOOSE i \in kept : \A k \in kept : i <= k,
                           CHOOSE i \in kept : \A k \in kept : k <= i)

\* None, which a condition takes for false
NoTag == ""

\* '.' of the regular expression matches every character but a newline
DotMatches(c) == c # "\n"

\* re.match(TAG_PATTERN, file_name) with TAG_PATTERN = ^(\[.*?\]): the
\* positions of a "]" that closes a prefix "[" ... "]" whose inner
\* characters are all matched by '.'; the lazy .*? stops at the first
TagEnds(chars) ==
    IF Len(chars) >= 1 /\ chars[1] = "["
    THEN { i \in 2..Len(chars) :
             /\ chars[i] = "]"
             /\ \A j \in 2..(i-1) : DotMatches(chars[j]) }
    ELSE {}

\* match.group(1)
TagGroup(chars) ==
    SubSeq(chars, 1, CHOOSE i \in TagEnds(chars) : \A k \in TagEnds(chars) : i <= k)

\* a tag that keeps the letter case of the file name
extract_tag_as_written(file_name) ==
    IF TagEnds(Chars(file_name)) # {}
    THEN Str(TagGroup(Chars(file_name)))
    ELSE NoTag

\* a tag for every name: names without a tag are taken as invoices
extract_tag_or_default(file_name) ==
    IF TagEnds(Chars(file_name)) # {}
    THEN Str(Lower(TagGroup(Chars(file_name))))
    ELSE InvoiceTag

\* extract_tag: match.group(1).lower() if match else None
extract_tag(file_name) ==
    IF TagEnds(Chars(file_name)) # {}
    THEN Str(Lower(TagGroup(Chars(file_name))))
    ELSE NoTag

\* os.path.splitext(name): the extension starts at the last dot, unless
\* that dot is preceded by dots only (or by nothing)
Splitext(chars) ==
    LET dots == { i \in 1..Len(chars) : chars[i] = "." }
        last == CHOOSE i \in dots : \A k \in dots : k <= i
    IN  IF dots = {} \/ (\A j \in 1..(last-1) : chars[j] = ".")
        THEN [base |-> chars, ext |-> <<>>]
        ELSE [base |-> SubSeq(chars, 1, last-1),
              ext  |-> SubSeq(chars, last, Len(chars))]

Digit == <<"0","1","2","3","4","5","6","7","8","9">>

\* str(counter) of a natural number
RECURSIVE IntToStr(_)
IntToStr(n) ==
    IF n < 10 THEN Digit[n+1]
    ELSE IntToStr(n \div 10) \o Digit[(n % 10) + 1]

\* the counter appended to the whole name, after the extension
SuffixedAtEnd(name, counter) == name \o "_" \o IntToStr(counter)

\* f"{base_name}_{counter}{ext}"
Suffixed(name, counter) ==
    Str(Splitext(Chars(name)).base) \o "_" \o IntToStr(counter)
        \o Str(Splitext(Chars(name)).ext)

\* ------------------------------------------------------------------------
\* State
\* ------------------------------------------------------------------------

VARIABLES
    \* the file system
    fs,                 \* path -> file, for the paths that exist (os.path.exists)
    locked,             \* ids of the files a producer holds open exclusively
    dirs,               \* the folders that exist
    next_id,            \* files created so far
    \* AutoSorterApp
    sorting_rules,      \* self.sorting_rules: tag -> destination folder
    watch_folder,       \* self.watch_folder
    observer,           \* self.observer: "None" or "Observer"
    \* the observer: its event queue and its dispatching thread
    event_queue,        \* creation events waiting to be dispatched
    n_events,           \* events queued so far
    thread,             \* "unstarted", "running" or "dead"
    \* the frame of on_created / wait_for_download / move_file on that thread
    pc,
    file_path,
    previous_size,
    elapsed_time,
    current_size,
    destination_folder,
    new_path,
    \* history of the event being handled and of the handled ones
    result,             \* what wait_for_download returned for this event
    polls,              \* size samples taken, while the wait is undisturbed
    last_change,        \* the last of them that differed from the one before
    disturbed,          \* the file was seen absent or locked during this wait
    prev_sample,        \* the size sample before the current one
    stable_obs,         \* what the file was when wait_for_download returned True
    timeout_log,        \* the paths printed by the timeout message
    move_log,           \* the calls of shutil.move and how each ended
    outcomes,           \* how on_created ended for each dispatched event
    error,              \* the exception that escaped on_created
    \* the GUI thread and the observers it has made
    gui_pc,             \* "mainloop", inside observer.join(), or "closed"
    gui_error,          \* the exception that escaped the last GUI callback
    n_observers,        \* Observer() objects constructed so far
    orphans,            \* observers still running that self.observer has lost
    rules_at_start,     \* the rule set when the handler was constructed
    settings_file,      \* what settings.json holds
    \* a function called on its own
    call                \* its name, its arguments and the value it returned

fsVars == <<fs, locked, dirs, next_id>>
appVars == <<sorting_rules, watch_folder, observer>>
queueVars == <<event_queue, n_events>>
frameVars ==
    <<pc, file_path, previous_size, elapsed_time, current_size,
      destination_folder, new_path>>
waitHist == <<result, polls, last_change, disturbed, prev_sample, stable_obs>>
doneHist == <<timeout_log, move_log, outcomes, error>>
guiVars ==
    <<gui_pc, gui_error, n_observers, orphans, rules_at_start, settings_file>>
vars ==
    <<fsVars, appVars, queueVars, thread, frameVars, waitHist, doneHist,
      guiVars, call>>

NoPath == [dir |-> NoFolder, name |-> ""]
\* the value of current_size before the first size is read: no size
NoSample == InitialPreviousSize - 1
NoObs == [id |-> 0, sample |-> NoSample, previous |-> NoSample]

\* os.path.exists
Exists(path) == path \in DOMAIN fs

File(id, size) == [id |-> id, size |-> size, whole |-> TRUE]

WatchPath(name) == Join(WatchRoot, name)

\* a function with one more, or one changed, entry
Put(f, k, v) == [x \in DOMAIN f \cup {k} |-> IF x = k THEN v ELSE f[x]]

\* a function without an entry
Drop(f, k) == [x \in DOMAIN f \ {k} |-> f[x]]

\* the rule sets load_settings can return
EmptyRules == [t \in {} |-> NoFolder]
InvoiceRules == [t \in {InvoiceTag} |-> DestInvoices]
LoadableRules == {EmptyRules, InvoiceRules}

\* save_settings: what json.dump writes to settings.json
Saved(rules, folder) == [sorting_rules |-> rules, watch_folder |-> folder]

\* ------------------------------------------------------------------------
\* The state after AutoSorterApp.__init__
\* ------------------------------------------------------------------------

IdleFrame ==
    /\ pc' = "idle"
    /\ file_path' = NoPath
    /\ previous_size' = InitialPreviousSize
    /\ elapsed_time' = 0
    /\ current_size' = NoSample
    /\ destination_folder' = NoFolder
    /\ new_path' = NoPath

\* no function has been called on its own
NoCall == [fn |-> "", args |-> <<>>, returned |-> ""]

\* the folders before any file has arrived
EmptyFolders ==
    /\ fs = [p \in {} |-> File(0, 0)]
    /\ locked = {}
    /\ next_id = 0

\* lines 95-98 and what has not happened yet: no observer, no event, the
\* GUI thread in its main loop
NotStarted ==
    /\ observer = "None"
    /\ event_queue = <<>>
    /\ n_events = 0
    /\ thread = "unstarted"
    /\ pc = "idle"
    /\ file_path = NoPath
    /\ previous_size = InitialPreviousSize
    /\ elapsed_time = 0
    /\ current_size = NoSample
    /\ destination_folder = NoFolder
    /\ new_path = NoPath
    /\ result = "none"
    /\ polls = 0
    /\ last_change = 0
    /\ disturbed = FALSE
    /\ prev_sample = NoSample
    /\ stable_obs = NoObs
    /\ timeout_log = <<>>
    /\ move_log = <<>>
    /\ outcomes = <<>>
    /\ error = "none"
    /\ gui_pc = "mainloop"
    /\ gui_error = "none"
    /\ n_observers = 0
    /\ orphans = 0
    /\ rules_at_start = EmptyRules

Init ==
    /\ EmptyFolders
    /\ dirs \in {{WatchRoot}, {WatchRoot, DestInvoices}}
    /\ sorting_rules \in LoadableRules
    /\ watch_folder \in {NoFolder, WatchRoot}
    /\ settings_file = Saved(sorting_rules, watch_folder)
    /\ NotStarted
    /\ call = NoCall

\* ------------------------------------------------------------------------
\* The producers and the other processes that use the two folders
\* ------------------------------------------------------------------------

CreationEvent(path) == [src_path |-> path, is_directory |-> FALSE]
DirectoryEvent(path) == [src_path |-> path, is_directory |-> TRUE]

\* the GUI thread is inside stop_monitoring: observer.stop() has been called
\* and observer.join() has not returned
Stopping == gui_pc \in {"join", "join_on_closing"}

\* the observer's emitter runs: the observer was started and not stopped
Watching == observer # "None" /\ thread # "unstarted" /\ ~Stopping

\* the emitter queues an event while it runs
Emit(event) ==
    IF ~Watching
    THEN UNCHANGED queueVars
    ELSE /\ n_events < MaxEvents
         /\ event_queue' = Append(event_queue, event)
         /\ n_events' = n_events + 1

ThreadUnchanged == UNCHANGED <<thread, frameVars, waitHist, doneHist>>

\* a producer creates a file in the watch folder: empty or already written,
\* held open exclusively or not
ProducerCreates(names, sizes, locks) ==
    \E name \in names, size \in sizes, lock \in locks :
        /\ ~Exists(WatchPath(name))
        /\ next_id < MaxFiles
        /\ next_id' = next_id + 1
        /\ fs' = Put(fs, WatchPath(name), File(next_id + 1, size))
        /\ locked' = IF lock THEN locked \cup {next_id + 1} ELSE locked
        /\ Emit(CreationEvent(WatchPath(name)))
        /\ UNCHANGED <<dirs, appVars, guiVars, call>>
        /\ ThreadUnchanged

\* the size of a file of the watch folder changes
ProducerWrites(names) ==
    \E name \in names, size \in 0..MaxSize :
        /\ Exists(WatchPath(name))
        /\ fs[WatchPath(name)].size # size
        /\ fs' = [fs EXCEPT ![WatchPath(name)].size = size]
        /\ UNCHANGED <<locked, dirs, next_id, appVars, guiVars, call, queueVars>>
        /\ ThreadUnchanged

\* a producer opens a file of the watch folder exclusively, or closes it
ProducerLocks(names) ==
    \E name \in names :
        /\ Exists(WatchPath(name))
        /\ fs[WatchPath(name)].id \notin locked
        /\ locked' = locked \cup {fs[WatchPath(name)].id}
        /\ UNCHANGED <<fs, dirs, next_id, appVars, guiVars, call, queueVars>>
        /\ ThreadUnchanged

ProducerCloses ==
    \E id \in locked :
        /\ locked' = locked \ {id}
        /\ UNCHANGED <<fs, dirs, next_id, appVars, guiVars, call, queueVars>>
        /\ ThreadUnchanged

\* a file of the watch folder is deleted or renamed away
FileVanishes(names) ==
    \E name \in names :
        /\ Exists(WatchPath(name))
        /\ fs' = Drop(fs, WatchPath(name))
        /\ locked' = locked \ {fs[WatchPath(name)].id}
        /\ UNCHANGED <<dirs, next_id, appVars, guiVars, call, queueVars>>
        /\ ThreadUnchanged

\* the emitter reports the creation of an existing file a second time
DuplicateNotification(names) ==
    \E name \in names :
        /\ Exists(WatchPath(name))
        /\ observer # "None"
        /\ Emit(CreationEvent(WatchPath(name)))
        /\ UNCHANGED <<fsVars, appVars, guiVars, call>>
        /\ ThreadUnchanged

\* a sub-folder is created in the watch folder
DirectoryCreated ==
    /\ observer # "None"
    /\ Emit(DirectoryEvent(WatchPath("New folder")))
    /\ UNCHANGED <<fsVars, appVars, guiVars, call>>
    /\ ThreadUnchanged

\* the names another writer may give a file of the destination folder
DestNames == WatchNames \cup { Suffixed(n, FirstCounter) : n \in WatchNames }

\* another process creates a file in the destination folder
OtherWriterCreates ==
    \E name \in DestNames, size \in {MaxSize} :
        /\ DestInvoices \in dirs
        /\ ~Exists(Join(DestInvoices, name))
        /\ next_id < MaxFiles
        /\ next_id' = next_id + 1
        /\ fs' = Put(fs, Join(DestInvoices, name), File(next_id + 1, size))
        /\ UNCHANGED <<locked, dirs, appVars, guiVars, call, queueVars>>
        /\ ThreadUnchanged

\* ------------------------------------------------------------------------
\* AutoSorterApp
\* ------------------------------------------------------------------------

\* choose_watch_folder: the dialog returns a folder, or "" when cancelled
choose_watch_folder ==
    \E folder \in {NoFolder, WatchRoot} :
        /\ gui_pc = "mainloop"
        /\ watch_folder' = IF folder # NoFolder THEN folder ELSE watch_folder
        /\ settings_file' = IF folder # NoFolder
                            THEN Saved(sorting_rules, folder)
                            ELSE settings_file
        /\ UNCHANGED <<fsVars, sorting_rules, observer, queueVars, gui_pc,
                       gui_error, n_observers, orphans, rules_at_start, call>>
        /\ ThreadUnchanged

\* observer.start() raises when the watch cannot be set up: the folder is
\* not there
StartRaises == watch_folder \notin dirs

\* the observer self.observer refers to has threads that run
ObserverRuns == observer # "None" /\ thread \in {"running", "dead"}

\* start_monitoring: refused with a warning for an empty watch folder; else
\* a handler on the rule set is made, self.observer is set to a new
\* Observer, the handler is scheduled on the folder and the observer is
\* started.  Nothing stops the observer self.observer referred to before.
\* When observer.start() raises, self.observer stays set to the observer
\* that has not started.  thread and the frame are those of the observer
\* self.observer refers to; an observer that has lost its reference is
\* counted in orphans, and its thread is not followed any further.
start_monitoring ==
    IF watch_folder = NoFolder
    THEN UNCHANGED vars
    ELSE /\ n_observers < MaxObservers
         /\ n_observers' = n_observers + 1
         /\ rules_at_start' = sorting_rules
         /\ orphans' = IF ObserverRuns THEN orphans + 1 ELSE orphans
         /\ observer' = "Observer"
         /\ event_queue' = <<>>
         /\ thread' = IF StartRaises THEN "unstarted" ELSE "running"
         /\ gui_error' = IF StartRaises THEN "OSError" ELSE gui_error
         /\ IdleFrame
         /\ UNCHANGED <<fsVars, sorting_rules, watch_folder, n_events,
                        waitHist, doneHist, gui_pc, settings_file, call>>

\* the button, toggle_monitoring, while no observer is set
StartButton == gui_pc = "mainloop" /\ observer = "None" /\ start_monitoring

\* stop_monitoring, lines 234-235: without an observer nothing is done; else
\* observer.stop() is called and the GUI thread enters observer.join().
\* `next` is where the GUI thread goes on when stop_monitoring has
\* returned: its main loop, or, from on_closing, root.destroy().
stop_monitoring(next) ==
    /\ gui_pc' = IF observer = "None" THEN next
                 ELSE IF next = "closed" THEN "join_on_closing" ELSE "join"
    /\ UNCHANGED <<fsVars, appVars, queueVars, gui_error, n_observers,
                   orphans, rules_at_start, settings_file, call>>
    /\ ThreadUnchanged

\* a join that does not wait for the thread
ReturnsAtOnce == TRUE

\* the observer's thread has ended, or ends at its next test of the stop
\* flag: it is not inside on_created
ThreadEnded == pc \in {"idle", "dead"}

\* stop_monitoring, lines 236-238: observer.join() returns when the
\* observer's thread has ended, and self.observer is set to None; on an
\* observer that was never started join() raises RuntimeError, which leaves
\* stop_monitoring (and on_closing) before self.observer is reset
observer_join ==
    /\ Stopping
    /\ IF thread = "unstarted"
       THEN /\ gui_error' = "RuntimeError"
            /\ gui_pc' = "mainloop"
            /\ UNCHANGED <<observer, thread>>
       ELSE /\ ThreadEnded
            /\ observer' = "None"
            /\ thread' = "joined"
            /\ gui_pc' = IF gui_pc = "join_on_closing" THEN "closed"
                         ELSE "mainloop"
            /\ UNCHANGED gui_error
    /\ UNCHANGED <<fsVars, sorting_rules, watch_folder, queueVars, frameVars,
                   waitHist, doneHist, n_observers, orphans, rules_at_start,
                   settings_file, call>>

\* toggle_monitoring, the button
toggle_monitoring ==
    /\ gui_pc = "mainloop"
    /\ IF observer # "None" THEN stop_monitoring("mainloop")
       ELSE start_monitoring

\* on_closing: stop_monitoring, then root.destroy()
on_closing == gui_pc = "mainloop" /\ stop_monitoring("closed")

\* start_monitoring and stop_monitoring called by other code than the button
StartCall == gui_pc = "mainloop" /\ start_monitoring
StopCall == gui_pc = "mainloop" /\ stop_monitoring("mainloop")

\* what the user has typed into the tag entry and into the path entry
TagEntries == {Str(chars) : chars \in {<<>>, BlankChars, TypedTagChars,
                                        InvoiceTagChars}}
PathEntries == {Str(chars) : chars \in {<<>>, DestInvoicesChars,
                                         TypedPathChars}}

\* self.tag_entry.get().strip().lower() and self.path_entry.get().strip()
EnteredTag == [text \in TagEntries |-> Str(Lower(Strip(Chars(text))))]
EnteredPath == [text \in PathEntries |-> Str(Strip(Chars(text)))]

\* add_tag: the stripped, lower-cased tag is set to the stripped path in the
\* rule set, unless one of them is empty; the settings are saved and the
\* table is filled from the rule set again
add_tag ==
    \E tag_text \in TagEntries, path_text \in PathEntries :
        LET tag == EnteredTag[tag_text]
            path == EnteredPath[path_text]
        IN  /\ gui_pc = "mainloop"
            /\ IF tag # "" /\ path # ""
               THEN /\ sorting_rules' = Put(sorting_rules, tag, path)
                    /\ settings_file' =
                           Saved(Put(sorting_rules, tag, path), watch_folder)
               ELSE UNCHANGED <<sorting_rules, settings_file>>
            /\ UNCHANGED <<fsVars, watch_folder, observer, queueVars, gui_pc,
                           gui_error, n_observers, orphans, rules_at_start,
                           call>>
            /\ ThreadUnchanged

\* remove_tag: the rule of the row selected in the table is deleted from
\* the rule set; the settings are saved and the table is filled again.  The
\* rows of the table are the keys of the rule set (refresh_table).
remove_tag ==
    \E tag \in DOMAIN sorting_rules :
        /\ gui_pc = "mainloop"
        /\ sorting_rules' = Drop(sorting_rules, tag)
        /\ settings_file' = Saved(Drop(sorting_rules, tag), watch_folder)
        /\ UNCHANGED <<fsVars, watch_folder, observer, queueVars, gui_pc,
                       gui_error, n_observers, orphans, rules_at_start, call>>
        /\ ThreadUnchanged

\* ------------------------------------------------------------------------
\* The observer's thread: it takes one event at a time from the queue and
\* calls the handler, returning to the queue when the handler has returned
\* ------------------------------------------------------------------------

Outcome(path, kind) == [path |-> path, kind |-> kind]

\* on_created returns
Return(kind) ==
    /\ outcomes' = Append(outcomes, Outcome(file_path, kind))
    /\ IdleFrame
    /\ UNCHANGED thread

\* an exception leaves on_created: nothing on the observer's thread catches
\* it, and the thread ends
Raise(exception) ==
    /\ outcomes' = Append(outcomes, Outcome(file_path, "Raised"))
    /\ error' = exception
    /\ thread' = "dead"
    /\ pc' = "dead"
    /\ UNCHANGED <<file_path, previous_size, elapsed_time, current_size,
                   destination_folder, new_path>>

\* time.sleep(interval); elapsed_time += interval
Sleep ==
    /\ elapsed_time' = elapsed_time + Interval
    /\ pc' = "wfd_while"

\* the thread is free to take the next event, and was not told to stop
CanDispatch ==
    thread = "running" /\ pc = "idle" /\ event_queue # <<>> /\ ~Stopping

\* on_created, lines 33-39: a directory event is dropped, a file event
\* enters wait_for_download
dispatch_events ==
    /\ CanDispatch
    /\ event_queue' = Tail(event_queue)
    /\ IF Head(event_queue).is_directory
       THEN /\ outcomes' = Append(outcomes,
                                  Outcome(Head(event_queue).src_path, "Directory"))
            /\ UNCHANGED <<thread, frameVars, waitHist, timeout_log, move_log,
                           error>>
       ELSE /\ pc' = "wfd_while"
            /\ file_path' = Head(event_queue).src_path
            /\ previous_size' = InitialPreviousSize
            /\ elapsed_time' = 0
            /\ result' = "none"
            /\ polls' = 0
            /\ last_change' = 0
            /\ disturbed' = FALSE
            /\ prev_sample' = NoSample
            /\ stable_obs' = NoObs
            /\ UNCHANGED <<thread, current_size, destination_folder, new_path,
                           doneHist>>
    /\ UNCHANGED <<fsVars, appVars, guiVars, call, n_events>>

\* wait_for_download, lines 50-54: the loop test and the existence test
wfd_while ==
    /\ thread = "running" /\ pc = "wfd_while"
    /\ elapsed_time < Timeout
    /\ IF ~Exists(file_path)
       THEN /\ Sleep
            /\ disturbed' = TRUE
            /\ polls' = 0
            /\ last_change' = 0
            /\ UNCHANGED <<result, prev_sample, stable_obs>>
       ELSE /\ pc' = "wfd_getsize"
            /\ UNCHANGED <<elapsed_time, waitHist>>
    /\ UNCHANGED <<fsVars, appVars, guiVars, call, queueVars, thread,
                   file_path, previous_size,
                   current_size, destination_folder, new_path, doneHist>>

\* wait_for_download, lines 71-72: the loop is left at the timeout
wfd_timeout ==
    /\ thread = "running" /\ pc = "wfd_while"
    /\ ~(elapsed_time < Timeout)
    /\ timeout_log' = Append(timeout_log, file_path)
    /\ result' = "timeout"
    /\ Return("SkippedTimeout")
    /\ UNCHANGED <<fsVars, appVars, guiVars, call, queueVars, polls,
                   last_change, disturbed,
                   prev_sample, stable_obs, move_log, error>>

\* a comparison that asks whether the file has stopped growing
NotLargerThanPrevious(current, previous) == current <= previous

\* current_size == previous_size, line 59
SameAsPrevious(current, previous) == current = previous

\* wait_for_download, lines 56-59 and 67-69: the size is read and compared
wfd_getsize ==
    /\ thread = "running" /\ pc = "wfd_getsize"
    /\ IF ~Exists(file_path)
       THEN /\ Raise("FileNotFoundError")
            /\ UNCHANGED <<waitHist, timeout_log, move_log>>
       ELSE LET size == fs[file_path].size IN
            /\ current_size' = size
            /\ prev_sample' = current_size
            /\ polls' = IF disturbed THEN 0 ELSE polls + 1
            /\ last_change' = IF disturbed THEN 0
                              ELSE IF polls = 0 \/ size # current_size
                              THEN polls + 1 ELSE last_change
            /\ IF SameAsPrevious(size, previous_size)
               THEN /\ pc' = "wfd_open"
                    /\ UNCHANGED <<previous_size, elapsed_time>>
               ELSE /\ previous_size' = size
                    /\ Sleep
            /\ UNCHANGED <<thread, file_path, destination_folder, new_path,
                           result, disturbed, stable_obs, doneHist>>
    /\ UNCHANGED <<fsVars, appVars, guiVars, call, queueVars>>

\* an open that no lock refuses
CanOpenLockedToo(path) == TRUE

\* open(file_path, "rb") succeeds on a file no producer holds exclusively
CanOpen(path) == fs[path].id \notin locked

\* wait_for_download, lines 61-65: the file is opened; a PermissionError is
\* swallowed and the loop goes on, any other error is not caught
wfd_open ==
    /\ thread = "running" /\ pc = "wfd_open"
    /\ IF ~Exists(file_path)
       THEN /\ Raise("FileNotFoundError")
            /\ UNCHANGED <<waitHist, timeout_log, move_log>>
       ELSE IF CanOpen(file_path)
       THEN /\ result' = "stable"
            /\ stable_obs' = [id |-> fs[file_path].id,
                              sample |-> current_size,
                              previous |-> prev_sample]
            /\ pc' = "oc_tag"
            /\ UNCHANGED <<thread, file_path, previous_size, elapsed_time,
                           current_size, destination_folder, new_path, polls,
                           last_change, disturbed, prev_sample, doneHist>>
       ELSE /\ previous_size' = current_size
            /\ Sleep
            /\ disturbed' = TRUE
            /\ polls' = 0
            /\ last_change' = 0
            /\ UNCHANGED <<thread, file_path, current_size, destination_folder,
                           new_path, result, prev_sample, stable_obs, doneHist>>
    /\ UNCHANGED <<fsVars, appVars, guiVars, call, queueVars>>

\* a handler that keeps the rule set as it was when it was constructed
HandlerRulesCopied == rules_at_start

\* self.sorting_rules of the handler, line 29: the dict of the app itself
HandlerRules == sorting_rules

\* on_created, lines 40-41: the tag of the file name and its test against
\* the rule set
oc_tag ==
    /\ thread = "running" /\ pc = "oc_tag"
    /\ LET tag == extract_tag(Basename(file_path)) IN
       IF tag = NoTag
       THEN Return("SkippedNoTag")
       ELSE IF tag \notin DOMAIN HandlerRules
       THEN Return("SkippedUnknownTag")
       ELSE /\ pc' = "oc_getitem"
            /\ UNCHANGED <<thread, file_path, previous_size, elapsed_time,
                           current_size, destination_folder, new_path,
                           outcomes>>
    /\ UNCHANGED <<fsVars, appVars, guiVars, call, queueVars, waitHist,
                   timeout_log, move_log,
                   error>>

\* the numbered name for the counter, taken or not
NextFreeUnchecked(destination, file_name, counter) ==
    Join(destination, Suffixed(file_name, counter))

\* get_unique_filename, lines 20-23: the first base_counter.ext that is free
RECURSIVE NextFree(_, _, _)
NextFree(destination, file_name, counter) ==
    LET path == Join(destination, Suffixed(file_name, counter))
    IN  IF Exists(path)
        THEN NextFree(destination, file_name, counter + 1)
        ELSE path

get_unique_filename(destination, file_name) ==
    IF Exists(Join(destination, file_name))
    THEN NextFree(destination, file_name, FirstCounter)
    ELSE Join(destination, file_name)

\* on_created, line 42, and move_file, lines 79-82: the rule's folder is
\* read; a missing folder ends the call; else the new path is resolved
move_file ==
    /\ thread = "running" /\ pc = "oc_getitem"
    /\ LET tag == extract_tag(Basename(file_path)) IN
       IF tag \notin DOMAIN HandlerRules
       THEN /\ Raise("KeyError")
            /\ UNCHANGED <<timeout_log, move_log>>
       ELSE IF HandlerRules[tag] \notin dirs
       THEN Return("SkippedMissingDestination")
            /\ UNCHANGED <<timeout_log, move_log, error>>
       ELSE /\ destination_folder' = HandlerRules[tag]
            /\ new_path' = get_unique_filename(HandlerRules[tag],
                                               Basename(file_path))
            /\ pc' = "mv_move"
            /\ UNCHANGED <<thread, file_path, previous_size, elapsed_time,
                           current_size, doneHist>>
    /\ UNCHANGED <<fsVars, appVars, guiVars, call, queueVars, waitHist>>

\* a move that copies the file and leaves the source where it was
MovedLeavingSource(src, dst) == Put(fs, dst, fs[src])

\* the file system after a completed shutil.move(src, dst): rename, or copy
\* and unlink; either way what was at dst is replaced
Moved(src, dst) == Put(Drop(fs, src), dst, fs[src])

\* the file system after a copy to dst that failed midway
PartlyCopied(src, dst) ==
    Put(fs, dst, [id |-> fs[src].id, size |-> 0, whole |-> FALSE])

\* how shutil.move can end on an existing source: done; refused before
\* anything is written; or, across volumes, failed in the middle of the copy
MoveEndings == {"Moved", "PermissionError", "OSError"}

MoveCall(ending) ==
    [src |-> file_path,
     dst |-> new_path,
     id |-> IF Exists(file_path) THEN fs[file_path].id ELSE 0,
     seen |-> stable_obs.id,
     replaced |-> IF Exists(new_path) THEN fs[new_path].id ELSE 0,
     ending |-> ending]

\* move_file, lines 84-85: after the delay, shutil.move(file_path, new_path)
shutil_move ==
    /\ thread = "running" /\ pc = "mv_move"
    /\ IF ~Exists(file_path)
       THEN /\ move_log' = Append(move_log, MoveCall("FileNotFoundError"))
            /\ Raise("FileNotFoundError")
            /\ UNCHANGED fs
       ELSE \E ending \in MoveEndings :
            /\ move_log' = Append(move_log, MoveCall(ending))
            /\ IF ending = "Moved"
               THEN /\ fs' = Moved(file_path, new_path)
                    /\ Return("Moved")
                    /\ UNCHANGED error
               ELSE /\ fs' = IF ending = "OSError"
                             THEN PartlyCopied(file_path, new_path)
                             ELSE fs
                    /\ Raise(ending)
    /\ UNCHANGED <<locked, dirs, next_id, appVars, guiVars, call, queueVars, waitHist,
                   timeout_log>>

\* ------------------------------------------------------------------------
\* The session: monitoring is started from the button and left running
\* ------------------------------------------------------------------------

\* the whole folder: files of every name arrive complete and closed, events
\* are duplicated, other processes write into the destination folder
Next ==
    \/ choose_watch_folder
    \/ StartButton
    \/ ProducerCreates(WatchNames, {0, MaxSize}, {FALSE})
    \/ FileVanishes(WatchNames)
    \/ DuplicateNotification(WatchNames)
    \/ DirectoryCreated
    \/ OtherWriterCreates
    \/ dispatch_events
    \/ wfd_while
    \/ wfd_timeout
    \/ wfd_getsize
    \/ wfd_open
    \/ oc_tag
    \/ move_file
    \/ shutil_move

Spec == Init /\ [][Next]_vars

\* one file name: its producer writes, locks, closes, deletes and creates
\* the file again at will, and nobody else uses the destination folder
NextOneFile ==
    \/ choose_watch_folder
    \/ StartButton
    \/ ProducerCreates({InvoiceName}, 0..MaxSize, BOOLEAN)
    \/ ProducerWrites({InvoiceName})
    \/ ProducerLocks({InvoiceName})
    \/ ProducerCloses
    \/ FileVanishes({InvoiceName})
    \/ dispatch_events
    \/ wfd_while
    \/ wfd_timeout
    \/ wfd_getsize
    \/ wfd_open
    \/ oc_tag
    \/ move_file
    \/ shutil_move

SpecOneFile == Init /\ [][NextOneFile]_vars

\* ------------------------------------------------------------------------
\* The rule editor at work while the folder is monitored
\* ------------------------------------------------------------------------

MixedTag == Str(MixedTagChars)

\* the rule sets json.load can return from a settings.json that was written
\* by hand: its keys are taken as they are
SettingsRules ==
    { [t \in keys |-> DestInvoices] : keys \in SUBSET {InvoiceTag, MixedTag} }

InitRules ==
    /\ EmptyFolders
    /\ dirs \in {{WatchRoot}, {WatchRoot, DestInvoices}}
    /\ sorting_rules \in SettingsRules
    /\ watch_folder = WatchRoot
    /\ settings_file = Saved(sorting_rules, watch_folder)
    /\ NotStarted
    /\ call = NoCall

\* files of both names arrive complete, some of them held open for good by
\* their producer, while rules are added and removed
NextRules ==
    \/ StartButton
    \/ add_tag
    \/ remove_tag
    \/ ProducerCreates(WatchNames, {MaxSize}, BOOLEAN)
    \/ dispatch_events
    \/ wfd_while
    \/ wfd_timeout
    \/ wfd_getsize
    \/ wfd_open
    \/ oc_tag
    \/ move_file
    \/ shutil_move

SpecRules == InitRules /\ [][NextRules]_vars

\* ------------------------------------------------------------------------
\* Monitoring started and stopped
\* ------------------------------------------------------------------------

InitSession ==
    /\ EmptyFolders
    /\ dirs = {WatchRoot, DestInvoices}
    /\ sorting_rules = InvoiceRules
    /\ watch_folder \in {NoFolder, WatchRoot, GoneFolder}
    /\ settings_file = Saved(sorting_rules, watch_folder)
    /\ NotStarted
    /\ call = NoCall

\* the user of the window: the button, the folder dialog and the close box,
\* while invoices arrive, some of them held open for good by their producer
NextSession ==
    \/ choose_watch_folder
    \/ toggle_monitoring
    \/ on_closing
    \/ observer_join
    \/ ProducerCreates({InvoiceName}, {MaxSize}, BOOLEAN)
    \/ dispatch_events
    \/ wfd_while
    \/ wfd_timeout
    \/ wfd_getsize
    \/ wfd_open
    \/ oc_tag
    \/ move_file
    \/ shutil_move

SpecSession == InitSession /\ [][NextSession]_vars

\* the same, with start_monitoring and stop_monitoring also called directly
NextCalls ==
    \/ StartCall
    \/ StopCall
    \/ NextSession

SpecCalls == InitSession /\ [][NextCalls]_vars

\* ------------------------------------------------------------------------
\* get_unique_filename called on its own, on a destination folder in which
\* the wanted name and some of its numbered names are taken
\* ------------------------------------------------------------------------

\* the names get_unique_filename is asked for: with an extension, with a
\* tag, without extension, with a leading dot, with two extensions
WantedNames ==
    {Str(chars) : chars \in {ReportTxtChars, InvoiceChars, ReadmeChars,
                             HiddenChars, ArchiveChars}}

TakenNames(name) == {name} \cup { Suffixed(name, k) : k \in 1..MaxTaken }

InitUnique ==
    /\ \E name \in WantedNames :
         \E taken \in SUBSET TakenNames(name) :
             fs = [path \in { Join(DestInvoices, n) : n \in taken } |->
                      File(IF path.name = name THEN 1
                           ELSE 1 + CHOOSE k \in 1..MaxTaken :
                                        Suffixed(name, k) = path.name,
                           MaxSize)]
    /\ locked = {}
    /\ next_id = MaxTaken + 1
    /\ dirs = {WatchRoot, DestInvoices}
    /\ sorting_rules = InvoiceRules
    /\ watch_folder = WatchRoot
    /\ settings_file = Saved(sorting_rules, watch_folder)
    /\ NotStarted
    /\ call = NoCall

call_get_unique_filename ==
    /\ call = NoCall
    /\ \E name \in WantedNames :
         call' = [fn |-> "get_unique_filename",
                  args |-> <<DestInvoices, name>>,
                  returned |-> get_unique_filename(DestInvoices, name)]
    /\ UNCHANGED <<fsVars, appVars, queueVars, thread, frameVars, waitHist,
                   doneHist, guiVars>>

NextUnique == call_get_unique_filename

SpecUnique == InitUnique /\ [][NextUnique]_vars

\* ------------------------------------------------------------------------
\* extract_tag called on its own
\* ------------------------------------------------------------------------

InitTag ==
    /\ EmptyFolders
    /\ dirs = {WatchRoot, DestInvoices}
    /\ sorting_rules = InvoiceRules
    /\ watch_folder = WatchRoot
    /\ settings_file = Saved(sorting_rules, watch_folder)
    /\ NotStarted
    /\ call = NoCall

call_extract_tag ==
    /\ call = NoCall
    /\ \E name \in ShortNames \cup WatchNames :
         call' = [fn |-> "extract_tag",
                  args |-> <<name>>,
                  returned |-> extract_tag(name)]
    /\ UNCHANGED <<fsVars, appVars, queueVars, thread, frameVars, waitHist,
                   doneHist, guiVars>>

NextTag == call_extract_tag

SpecTag == InitTag /\ [][NextTag]_vars

\* ------------------------------------------------------------------------
\* Properties
\* ------------------------------------------------------------------------

WaitPcs == {"wfd_while", "wfd_getsize", "wfd_open"}
InvoicePath == [dir |-> WatchRoot, name |-> InvoiceName]
Calls == 1..Len(move_log)
Handled == 1..Len(outcomes)

\* C1: of two creation events for the same path, only the first moves the
\* file: once a call of shutil.move has moved a file, no later call of
\* shutil.move is made for an event that found that same file stable, so
\* there is neither a second move of it nor a failed attempt on its old path.
C1_OneMovePerFile ==
    \A i \in Calls, j \in Calls :
        (i < j /\ move_log[i].ending = "Moved")
            => move_log[j].seen # move_log[i].id

\* two events for one file were handled: the first moved it, the second
\* found nothing to move
C1_Witness ==
    /\ next_id = 1
    /\ n_events = 2
    /\ outcomes = <<Outcome(InvoicePath, "Moved"),
                    Outcome(InvoicePath, "SkippedTimeout")>>
    /\ Len(move_log) = 1

\* C3 (as claimed): a move never lands on an occupied path: no call of
\* shutil.move that wrote to its destination found a file there.
C3_NeverOverwrites ==
    \A i \in Calls :
        move_log[i].ending \in {"Moved", "OSError"} => move_log[i].replaced = 0

\* C4 (as claimed): an error raised while one file is processed leaves the
\* session running: the observer's thread is still there to take the events
\* of other files.
C4_ErrorsStayLocal == error # "none" => thread = "running"

\* C5 (as claimed): while wait_for_download polls one file, a creation
\* event for another file does not wait in the queue: the handler can be
\* entered for it at once.
C5_IntakeNotBlocked ==
    (/\ pc \in WaitPcs
     /\ event_queue # <<>>
     /\ ~Head(event_queue).is_directory
     /\ Head(event_queue).src_path # file_path)
        => CanDispatch

\* C10 (as claimed): a relocation that fails with a permission error or in
\* the middle of the copy leaves the file system as it was: the source at its
\* path, nothing new at the resolved destination.
C10_FailedMoveHasNoEffect ==
    [][(/\ pc = "mv_move"
        /\ pc' = "dead"
        /\ error' \in {"PermissionError", "OSError"}) => fs' = fs]_vars

\* C6: wait_for_download returns True only from a poll at which the file
\* exists, no producer holds it locked, and the size just read equals the
\* size read at the sample before, so never from the first sample; and a
\* poll whose open is refused by a lock does not return: previous_size takes
\* the size read, one interval is slept and counted, and the loop test comes
\* next (another poll, unless the timeout is reached).
C6_StableOnlyOnRepeatedUnlockedSample ==
    [][/\ (result # "stable" /\ result' = "stable")
            => /\ file_path \in DOMAIN fs
               /\ fs[file_path].id \notin locked
               /\ prev_sample # NoSample
               /\ current_size = prev_sample
       /\ (/\ pc = "wfd_open" /\ pc' # pc
           /\ file_path \in DOMAIN fs
           /\ fs[file_path].id \in locked)
            => /\ pc' = "wfd_while"
               /\ result' = "none"
               /\ previous_size' = current_size
               /\ elapsed_time' = elapsed_time + Interval]_vars

\* a file of zero bytes was found stable, after a wait in which a poll
\* found it absent or locked
C6_Witness ==
    /\ result = "stable"
    /\ pc = "oc_tag"
    /\ disturbed
    /\ stable_obs.sample = 0
    /\ stable_obs.previous = 0

\* C7 (as claimed): wait_for_download ends in one of two ways: whenever the
\* handler is past the wait for the event it is handling, the wait returned
\* stable or timeout.
C7_WaitReturnsStableOrTimeout ==
    (pc \notin WaitPcs /\ pc # "idle") => result \in {"stable", "timeout"}

\* C8: for a file that every poll finds present and unlocked, stability is
\* declared at the first sample that equals the one before it and at no
\* other: when the samples changed up to sample N+1 the wait returns at
\* sample N+2, after N+1 intervals (a file written in one burst, N = 0, at
\* the second sample, after one interval, which is within two), and while
\* the wait goes on every sample taken so far differed from the one before.
C8_StableAtFirstRepeatedSample ==
    /\ (pc = "oc_tag" /\ ~disturbed)
            => /\ polls = last_change + 1
               /\ elapsed_time = last_change * Interval
               /\ (last_change = 1 => elapsed_time <= 2 * Interval)
    /\ (pc = "wfd_while" /\ ~disturbed /\ polls > 0)
            => /\ last_change = polls
               /\ elapsed_time = polls * Interval

\* the size changed at the second and at the third sample and then stayed:
\* stable at the fourth sample
C8_Witness ==
    /\ pc = "oc_tag"
    /\ ~disturbed
    /\ last_change = 3
    /\ polls = 4

\* C9 (as claimed): a path that is gone when the size is read or the file is
\* opened costs one interval and another poll, and no exception leaves
\* wait_for_download.
C9_VanishedFileIsRetried ==
    [][(/\ pc \in {"wfd_getsize", "wfd_open"} /\ pc' # pc
        /\ file_path \notin DOMAIN fs)
            => /\ pc' = "wfd_while"
               /\ elapsed_time' = elapsed_time + Interval
               /\ error' = "none"]_vars

MarchName == "march.pdf"

\* C2 (as claimed): the first file moved from the watch folder ends at
\* /dest/invoices/march.pdf, its name without the tag.
C2_EndsAtNameWithoutTag ==
    (move_log # <<>> /\ move_log[1].ending = "Moved")
        => /\ Join(DestInvoices, MarchName) \in DOMAIN fs
           /\ fs[Join(DestInvoices, MarchName)].id = move_log[1].id

\* C2 (amended): with the rule "[invoice]" -> /dest/invoices and the folder
\* existing and empty, an event for "[Invoice] march.pdf" is never skipped
\* for its tag or its rule or its folder (it is moved, unless the wait times
\* out or an error is raised), and once moved the file is at
\* /dest/invoices/[Invoice] march.pdf, under its whole name with the tag, and
\* nowhere else: not in the watch folder.
C2_EndsAtItsWholeName ==
    /\ \A i \in Handled :
          (/\ outcomes[i].path = InvoicePath
           /\ sorting_rules = InvoiceRules
           /\ DestInvoices \in dirs)
              => outcomes[i].kind \in {"Moved", "SkippedTimeout", "Raised"}
    /\ (move_log # <<>> /\ move_log[1].ending = "Moved")
          => /\ move_log[1].src = InvoicePath
             /\ move_log[1].dst = Join(DestInvoices, InvoiceName)
             /\ move_log[1].dst \in DOMAIN fs
             /\ \A p \in DOMAIN fs :
                    fs[p].id = move_log[1].id <=> p = move_log[1].dst

\* the file, written, was moved and the watch folder is empty
C2_Witness ==
    /\ outcomes = <<Outcome(InvoicePath, "Moved")>>
    /\ DOMAIN fs = {Join(DestInvoices, InvoiceName)}
    /\ fs[Join(DestInvoices, InvoiceName)] = File(1, MaxSize)
    /\ locked = {}

\* the base and the extension of the wanted names, written out
C11_Parts(name) ==
    CASE name = "report.txt" -> <<"report", ".txt">>
      [] name = "[Invoice] march.pdf" -> <<"[Invoice] march", ".pdf">>
      [] name = "README" -> <<"README", "">>
      [] name = ".hidden" -> <<".hidden", "">>
      [] name = "archive.tar.gz" -> <<"archive.tar", ".gz">>

C11_Numbered(folder, name, k) ==
    Join(folder, C11_Parts(name)[1] \o "_" \o IntToStr(k) \o C11_Parts(name)[2])

\* C11: get_unique_filename(destination, name) returns a path in
\* destination that does not exist when it is called: the name itself when
\* that is free, else base_k.ext for the smallest k >= 1 whose base_k.ext
\* is free, the number standing before the extension; with report.txt and
\* report_1.txt taken, report.txt resolves to report_2.txt.
C11_SmallestFreeName ==
    call.fn = "get_unique_filename" =>
        LET folder == call.args[1]
            name == call.args[2]
            got == call.returned
        IN  /\ got.dir = folder
            /\ got \notin DOMAIN fs
            /\ IF Join(folder, name) \notin DOMAIN fs
               THEN got = Join(folder, name)
               ELSE \E k \in 1..(MaxTaken + 1) :
                       /\ got = C11_Numbered(folder, name, k)
                       /\ \A j \in 1..(k - 1) :
                              C11_Numbered(folder, name, j) \in DOMAIN fs
            /\ (/\ name = "report.txt"
                /\ { path.name : path \in DOMAIN fs }
                      = {"report.txt", "report_1.txt"})
                   => got.name = "report_2.txt"

\* report.txt and report_1.txt are taken, and report.txt was resolved
C11_Witness ==
    /\ call.fn = "get_unique_filename"
    /\ call.args = <<DestInvoices, "report.txt">>
    /\ DOMAIN fs = {Join(DestInvoices, "report.txt"),
                    Join(DestInvoices, "report_1.txt")}
    /\ call.returned = Join(DestInvoices, "report_2.txt")

SkipKinds ==
    {"SkippedNoTag", "SkippedUnknownTag", "SkippedMissingDestination",
     "SkippedTimeout"}
ReportPath == [dir |-> WatchRoot, name |-> ReportName]

\* C12: a file whose processing is skipped (no leading tag, no rule for
\* its tag in the current rule set, the rule's folder missing at move time,
\* or the stability check timed out) is left in place and the folders are
\* left as they were: every file whose event ended skipped is still at its
\* path; the step that ends an event as skipped, like every step of the
\* handler before the call of shutil.move, changes neither a file nor a
\* folder, and that call never ends an event as skipped; report.pdf, once
\* in the watch folder, stays there.
C12_SkippedFileStays ==
    /\ [](\A i \in Handled :
            outcomes[i].kind \in SkipKinds => outcomes[i].path \in DOMAIN fs)
    /\ [][/\ (/\ Len(outcomes') = Len(outcomes) + 1
               /\ outcomes'[Len(outcomes')].kind \in SkipKinds)
                  => (fs' = fs /\ dirs' = dirs /\ pc # "mv_move")
          /\ (frameVars' # frameVars /\ pc # "mv_move")
                  => (fs' = fs /\ dirs' = dirs)
          /\ ReportPath \in DOMAIN fs => ReportPath \in DOMAIN fs'
         ]_vars

\* report.pdf was skipped for having no tag and the invoice, held open by
\* its producer, was skipped at the timeout; both are where they were
C12_Witness ==
    /\ \E i \in Handled : outcomes[i] = Outcome(ReportPath, "SkippedNoTag")
    /\ \E i \in Handled : outcomes[i] = Outcome(InvoicePath, "SkippedTimeout")
    /\ DOMAIN fs = {ReportPath, InvoicePath}
    /\ fs[InvoicePath].id \in locked
    /\ sorting_rules = InvoiceRules
    /\ DestInvoices \in dirs

\* C13 (as claimed): a rule removed or added by the GUI thread while
\* on_created is between the test `tag in sorting_rules` and the read
\* sorting_rules[tag] does not break the lookup: the read gives the rule's
\* folder or the event ends without a rule, and no KeyError leaves
\* on_created.
C13_LookupNeverFails ==
    /\ error # "KeyError"
    /\ pc = "mv_move" => destination_folder \in {DestInvoices}

\* C14 (as claimed): start and stop are idempotent: while an observer is
\* set and running, a call of start_monitoring changes nothing, so no
\* Observer is constructed and self.observer, its thread and its queue stay
\* as they are; while no observer is set, a call of stop_monitoring changes
\* nothing, so the GUI thread does not enter observer.join().
C14_StartStopIdempotent ==
    [][/\ (observer # "None" /\ thread = "running")
            => (/\ n_observers' = n_observers
                /\ orphans' = orphans
                /\ (gui_pc' = gui_pc => observer' = observer))
       /\ (observer = "None" /\ gui_pc = "mainloop")
            => gui_pc' \notin {"join", "join_on_closing"}
      ]_vars

\* C15: stop drains the work in flight: whenever no observer is set and
\* the GUI thread is not inside stop_monitoring, the observer's thread has
\* been joined or never ran and is not inside on_created, in
\* wait_for_download or in move_file; and while no observer is set, no
\* call of shutil.move is made, no event is taken and no file is moved.
C15_StopDrains ==
    /\ [](observer = "None" =>
            /\ gui_pc \in {"mainloop", "closed"}
            /\ thread \in {"unstarted", "joined"}
            /\ pc \in {"idle", "dead"})
    /\ [][observer = "None" =>
            /\ move_log' = move_log
            /\ outcomes' = outcomes
            /\ \A path \in DOMAIN fs : path.dir = WatchRoot => path \in DOMAIN fs'
         ]_vars

\* monitoring was stopped after an invoice had been moved and while the
\* event of the next one was in the queue: that event is never taken
C15_Witness ==
    /\ observer = "None"
    /\ thread = "joined"
    /\ n_observers = 1
    /\ outcomes = <<Outcome(InvoicePath, "Moved")>>
    /\ event_queue # <<>>
    /\ gui_pc = "mainloop"

\* C16 (as claimed): extract_tag depends on the file name only: for every
\* name that starts with "[" and has a "]", it returns the prefix up to
\* and including the first "]", in lower case; for every name that does
\* not start with "[" (the empty name too) it returns none.
C16_TagIsLoweredPrefix ==
    call.fn = "extract_tag" =>
        LET chars == Chars(call.args[1])
            closes == { i \in 1..Len(chars) : chars[i] = "]" }
            first == CHOOSE i \in closes : \A k \in closes : i <= k
        IN  /\ (Len(chars) >= 1 /\ chars[1] = "[" /\ closes # {})
                   => call.returned = Str(Lower(SubSeq(chars, 1, first)))
            /\ (Len(chars) = 0 \/ chars[1] # "[")
                   => call.returned = NoTag

\* the first two calls of shutil.move both moved a file
C17_TwoMoved ==
    /\ Len(move_log) >= 2
    /\ move_log[1].ending = "Moved"
    /\ move_log[2].ending = "Moved"

\* a file of the destination folder stays as it is
C17_DestinationKept ==
    \A path \in DOMAIN fs :
        (path.dir = DestInvoices /\ fs[path].whole)
            => (path \in DOMAIN fs' /\ fs'[path] = fs[path])

\* C17 (as claimed): after [Invoice] march.pdf has been moved, a later
\* file of the same name ends at /dest/invoices/march_1.pdf, and the file
\* moved first is still in the destination folder as it was.
C17_SecondEndsAtMarch1 ==
    C17_TwoMoved =>
        /\ Join(DestInvoices, "march_1.pdf") \in DOMAIN fs
        /\ fs[Join(DestInvoices, "march_1.pdf")].id = move_log[2].id
        /\ \E path \in DOMAIN fs : fs[path].id = move_log[1].id

\* C17 (amended): after [Invoice] march.pdf has been moved, a later file
\* of the same name is moved next to it, not over it: the second ends at
\* /dest/invoices/[Invoice] march_1.pdf, the number standing before the
\* extension of the whole name; the first is at
\* /dest/invoices/[Invoice] march.pdf, and what a move has put into the
\* destination folder is the file as it was in the watch folder and stays
\* as it is.
C17_SecondEndsNextToFirst ==
    /\ [](C17_TwoMoved =>
            /\ move_log[1].src = InvoicePath
            /\ move_log[2].src = InvoicePath
            /\ move_log[1].id # move_log[2].id
            /\ move_log[1].dst = Join(DestInvoices, "[Invoice] march.pdf")
            /\ move_log[2].dst = Join(DestInvoices, "[Invoice] march_1.pdf")
            /\ \A i \in 1..2 :
                  /\ move_log[i].dst \in DOMAIN fs
                  /\ fs[move_log[i].dst].id = move_log[i].id
                  /\ fs[move_log[i].dst].whole)
    /\ [][/\ C17_DestinationKept
          /\ (Len(move_log') > Len(move_log)
              /\ move_log'[Len(move_log')].ending = "Moved")
                 => fs'[new_path] = fs[file_path]
         ]_vars

\* two invoices of the same name were moved, one after the other
C17_Witness ==
    /\ C17_TwoMoved
    /\ DOMAIN fs = {Join(DestInvoices, "[Invoice] march.pdf"),
                    Join(DestInvoices, "[Invoice] march_1.pdf")}
    /\ fs[Join(DestInvoices, "[Invoice] march.pdf")] = File(1, MaxSize)
    /\ fs[Join(DestInvoices, "[Invoice] march_1.pdf")] = File(2, 0)

\* C18: the rule set used for an event is the one of the moment of the
\* lookup, not the one of the start of monitoring: when on_created tests
\* the tag of an invoice, the event goes on to the move exactly if the rule
\* set of the app holds the tag at that moment, and else ends without a
\* rule; the folder read for the move is the one the rule set of the app
\* gives the tag at that moment.
C18_RulesOfTheMoment ==
    [][/\ (pc = "oc_tag" /\ pc' # "oc_tag" /\ file_path = InvoicePath)
            => IF InvoiceTag \in DOMAIN sorting_rules
               THEN pc' = "oc_getitem" /\ outcomes' = outcomes
               ELSE /\ pc' = "idle"
                    /\ outcomes' = Append(outcomes,
                           Outcome(InvoicePath, "SkippedUnknownTag"))
       /\ (pc = "oc_getitem" /\ pc' = "mv_move")
            => /\ InvoiceTag \in DOMAIN sorting_rules
               /\ destination_folder' = sorting_rules[InvoiceTag]
      ]_vars

\* monitoring was started once, without a rule; a rule added afterwards
\* moved the first invoice, and its removal left the second one unmoved
C18_Witness ==
    /\ n_observers = 1
    /\ rules_at_start = EmptyRules
    /\ sorting_rules = EmptyRules
    /\ outcomes = <<Outcome(InvoicePath, "Moved"),
                    Outcome(InvoicePath, "SkippedUnknownTag")>>

\* C19 (as claimed): whatever the button, the folder dialog and the close
\* box have been used for, start refused or failed included: no observer
\* runs besides the one self.observer refers to, self.observer is set
\* exactly when that observer's threads run, and no call of stop_monitoring
\* has failed.
C19_ObserverSetIffRunning ==
    /\ orphans = 0
    /\ observer # "None" <=> thread \in {"running", "dead"}
    /\ gui_error # "RuntimeError"

\* C20 (as claimed): after the settings are loaded and after any adding
\* and removing of rules, every key of the rule set is in lower case and no
\* two keys differ in letter case only; an invoice whose tag differs from
\* a key in letter case only is therefore not left for want of a rule.
C20_KeysAreLowerCase ==
    /\ [](/\ \A t \in DOMAIN sorting_rules : Str(Lower(Chars(t))) = t
          /\ \A t \in DOMAIN sorting_rules, u \in DOMAIN sorting_rules :
                Str(Lower(Chars(t))) = Str(Lower(Chars(u))) => t = u)
    /\ [][(/\ pc = "oc_tag"
           /\ pc' # "oc_tag"
           /\ file_path = InvoicePath
           /\ \E t \in DOMAIN sorting_rules :
                 Str(Lower(Chars(t))) = Str(Lower(InvoiceTagChars)))
              => pc' = "oc_getitem"
         ]_vars

====
